---- MODULE Spec2Model ----
(***************************************************************************)
(* Model of pressly/cli's argument resolution: Parse (parse.go) applied,   *)
(* possibly several times in sequence, to one command tree.  Tokens, flag  *)
(* names and command names are strings and are inspected character by      *)
(* character, as the Go code does.                                         *)
(***************************************************************************)
EXTENDS Integers, Sequences, FiniteSets, TLC

(***************************************************************************)
(* Bounds of the model.                                                    *)
(***************************************************************************)
\* Longest token list handed to one Parse call.
MaxLen == 3
\* Number of sequential Parse calls made against the same tree.
MaxParses == 2
\* Run and ParseAndRun calls made on one tree
MaxRuns == 2
\* nested usage calls followed before a rendering is given up as endless
MaxDepth == 3
\* interrupt signals sent to a process under graceful.Run
MaxSignals == 2

(***************************************************************************)
(* String helpers (package strings / strconv).                             *)
(***************************************************************************)
Char(s, i) == SubSeq(s, i, i)

\* the elements of a sequence
Range(q) == { q[i] : i \in 1..Len(q) }

\* strings.HasPrefix
HasPrefix(s, p) == Len(s) >= Len(p) /\ SubSeq(s, 1, Len(p)) = p

\* strings.Contains for a one-character needle
Contains(s, c) == \E i \in 1..Len(s) : Char(s, i) = c

\* strings.TrimLeft(s, c) for a one-character cutset
RECURSIVE TrimLeft(_, _)
TrimLeft(s, c) ==
    IF Len(s) > 0 /\ Char(s, 1) = c THEN TrimLeft(SubSeq(s, 2, Len(s)), c) ELSE s

UpperLetters == "ABCDEFGHIJKLMNOPQRSTUVWXYZ"
LowerLetters == "abcdefghijklmnopqrstuvwxyz"
Digits == "0123456789"

UpperSet == { Char(UpperLetters, i) : i \in 1..Len(UpperLetters) }
LowerSet == { Char(LowerLetters, i) : i \in 1..Len(LowerLetters) }
DigitSet == { Char(Digits, i) : i \in 1..Len(Digits) }

IsUpper(c) == c \in UpperSet
IsLower(c) == c \in LowerSet
IsDigit(c) == c \in DigitSet
IsLetter(c) == IsUpper(c) \/ IsLower(c)

FoldChar(c) ==
    IF IsUpper(c)
    THEN Char(LowerLetters, CHOOSE i \in 1..Len(UpperLetters) : Char(UpperLetters, i) = c)
    ELSE c

RECURSIVE Fold(_)
Fold(s) == IF Len(s) = 0 THEN "" ELSE FoldChar(Char(s, 1)) \o Fold(SubSeq(s, 2, Len(s)))

\* strings.EqualFold, on ASCII strings
EqualFold(a, b) == Fold(a) = Fold(b)

\* strings.Join(xs, sep)
RECURSIVE Join(_, _)
Join(xs, sep) ==
    IF Len(xs) = 0 THEN ""
    ELSE IF Len(xs) = 1 THEN xs[1]
    ELSE xs[1] \o sep \o Join(Tail(xs), sep)

\* strconv.ParseBool: the accepted literals
BoolTrueLits == {"1", "t", "T", "TRUE", "true", "True"}
BoolFalseLits == {"0", "f", "F", "FALSE", "false", "False"}

(***************************************************************************)
(* Command trees.  A tree is a sequence of commands, the root first; a     *)
(* command names its SubCommands by their index in the tree.  Flags lists  *)
(* the command's flag.FlagSet in VisitAll order (sorted by name); a nil    *)
(* FlagSet and an empty one behave alike in Parse and are both <<>>.       *)
(***************************************************************************)
BoolFlag(name, def) == [Name |-> name, IsBool |-> TRUE, DefValue |-> def]
StringFlag(name, def) == [Name |-> name, IsBool |-> FALSE, DefValue |-> def]
FlagMetadata(name, required, short) ==
    [Name |-> name, Required |-> required, Short |-> short, Local |-> FALSE]
\* A flag option marked Local: left out of the help of the command's descendants.
LocalFlag(name, required, short) ==
    [Name |-> name, Required |-> required, Short |-> short, Local |-> TRUE]
Command(name, flags, meta, subs, exec) ==
    [Name |-> name, Flags |-> flags, FlagsMetadata |-> meta, SubCommands |-> subs, Exec |-> exec]

\* One command with required flags, a prefix-named sibling flag and a short alias.
TreeRequired ==
    << Command("mycli",
               << BoolFlag("force", "false"), BoolFlag("force-all", "false"),
                  StringFlag("port", "8080") >>,
               << FlagMetadata("force", TRUE, ""), FlagMetadata("port", TRUE, "p") >>,
               << >>, TRUE) >>

\* Required flags at several levels, on and off the path; nested has no handler.
TreeTodo ==
    << Command("todo", << BoolFlag("verbose", "false") >>,
               << FlagMetadata("verbose", TRUE, "") >>, << 2, 3 >>, TRUE),
       Command("add", << BoolFlag("dry-run", "false") >>,
               << FlagMetadata("dry-run", TRUE, "") >>, << >>, TRUE),
       Command("nested", << BoolFlag("force", "false"), StringFlag("name", "") >>,
               << FlagMetadata("name", TRUE, ""), FlagMetadata("force", TRUE, "") >>,
               << >>, FALSE) >>

\* A required root string flag with a short alias, used around a two-level subcommand
\* chain; only the deepest command has a handler.
TreeOutput ==
    << Command("mycli", << StringFlag("output", "") >>,
               << FlagMetadata("output", TRUE, "o") >>, << 2 >>, FALSE),
       Command("parent", << >>, << >>, << 3 >>, FALSE),
       Command("child", << >>, << >>, << >>, TRUE) >>

\* The same flag names declared at two levels of the path.
TreeShadow ==
    << Command("mycli", << BoolFlag("out", "false"), BoolFlag("verbose", "false") >>,
               << FlagMetadata("verbose", FALSE, "v") >>, << 2 >>, TRUE),
       Command("parent", << StringFlag("out", ""), BoolFlag("verbose", "false") >>,
               << >>, << 3 >>, TRUE),
       Command("child", << >>, << >>, << >>, TRUE) >>

\* A small tree for the end-of-options delimiter and the help markers.
TreeRun ==
    << Command("app", << BoolFlag("debug", "false") >>, << >>, << 2 >>, TRUE),
       Command("Run", << StringFlag("tag", "") >>, << >>, << >>, TRUE) >>

\* A tree that fails validation: a subcommand name starting with a digit.
TreeBadName ==
    << Command("app", << BoolFlag("debug", "false") >>, << >>, << 2 >>, TRUE),
       Command("9lives", << >>, << >>, << >>, TRUE) >>

\* A tree that fails validation: metadata for a flag the command does not declare.
TreeBadMeta ==
    << Command("app", << BoolFlag("verbose", "false") >>,
               << FlagMetadata("vrbose", FALSE, "v") >>, << >>, TRUE) >>

\* The same short alias declared by the root and by its subcommand, for different flags.
TreeAlias ==
    << Command("app", << BoolFlag("verbose", "false") >>,
               << FlagMetadata("verbose", FALSE, "v") >>, << 2 >>, TRUE),
       Command("sub", << BoolFlag("version", "false") >>,
               << FlagMetadata("version", FALSE, "v") >>, << >>, TRUE) >>

\* A short alias of two characters that begins with an upper-case letter.
TreeLongShort ==
    << Command("app", << BoolFlag("verbose", "false") >>,
               << FlagMetadata("verbose", FALSE, "Vv") >>, << >>, TRUE) >>

\* A subcommand two of whose flag options share a short alias.
TreeDupShort ==
    << Command("app", << >>, << >>, << 2 >>, TRUE),
       Command("sub", << BoolFlag("verbose", "false"), BoolFlag("version", "false") >>,
               << FlagMetadata("verbose", FALSE, "v"), FlagMetadata("version", FALSE, "v") >>,
               << >>, TRUE) >>

\* Flag options of the root marked Local, one of them required, above a subcommand.
TreeLocal ==
    << Command("app", << StringFlag("config", ""), BoolFlag("verbose", "false") >>,
               << LocalFlag("verbose", FALSE, "v"), LocalFlag("config", TRUE, "") >>,
               << 2 >>, TRUE),
       Command("sub", << >>, << >>, << >>, TRUE) >>

\* A root with its own handler above a subcommand; callers pass it a lone "-".
TreeDash ==
    << Command("app", << >>, << >>, << 2 >>, TRUE),
       Command("sub", << >>, << >>, << >>, TRUE) >>

Trees ==
    << TreeRequired, TreeTodo, TreeOutput, TreeShadow, TreeRun, TreeBadName, TreeBadMeta,
       TreeAlias, TreeLongShort, TreeDupShort, TreeLocal, TreeDash >>

\* The tokens a caller may pass to each tree.
Tokens ==
    << {"--force", "--force-all", "--port", "8080", "-p", "--port=8080"},
       {"nested", "add", "--verbose", "--force", "--name", "--dry-run"},
       {"parent", "child", "--output", "-o", "foo", "--help"},
       {"parent", "child", "--out", "-v", "--verbose", "--out=x"},
       {"run", "--", "-h", "--help=1", "--debug", "--tag"},
       {"-h", "9lives"},
       {"-h", "-v"},
       {"sub", "-v", "--verbose", "--version"},
       {"-Vv", "--verbose", "-V"},
       {"sub", "-v"},
       {"sub", "-v", "--verbose", "--config"},
       {"sub", "-", "x"} >>

\* All token lists of length at most n over the alphabet S.
RECURSIVE TokenLists(_, _)
TokenLists(S, n) ==
    IF n = 0 THEN { << >> }
    ELSE LET shorter == TokenLists(S, n - 1)
         IN  shorter \cup { Append(l, x) : l \in { m \in shorter : Len(m) = n - 1 }, x \in S }

(***************************************************************************)
(* Errors returned by Parse.  kind tells the return statement that made it *)
(* apart, name carries the offending token or flag, missing the list of    *)
(* unset required flags, at the command path the message is prefixed with. *)
(***************************************************************************)
Err(kind, name) == [kind |-> kind, name |-> name, missing |-> << >>, at |-> ""]
NoErr == Err("nil", "")
\* parse.go:53 returns ErrHelp, the flag package's sentinel (run.go:68 tests for it)
ErrHelp == Err("help", "")

(***************************************************************************)
(* Tree validation (parse.go validateName, validateFlagsMetadata,          *)
(* validateCommands).                                                      *)
(***************************************************************************)
\* flag.FlagSet.Lookup: the index of the flag called name, 0 when there is none
Lookup(flags, name) ==
    IF \E k \in 1..Len(flags) : flags[k].Name = name
    THEN CHOOSE k \in 1..Len(flags) : flags[k].Name = name
    ELSE 0

\* validNameRegex: ^[a-zA-Z][a-zA-Z0-9_-]*$
validateName(name) ==
    /\ Len(name) > 0
    /\ IsLetter(Char(name, 1))
    /\ \A i \in 2..Len(name) :
          IsLetter(Char(name, i)) \/ IsDigit(Char(name, i)) \/ Char(name, i) \in {"_", "-"}

\* The short-alias test of validateFlagsMetadata, as the nested ifs compute it.
badShort(short) ==
    /\ (Len(short) # 1 \/ ~IsLower(Char(short, 1)))
    /\ ~IsUpper(Char(short, 1))

RECURSIVE validateFlagsMetadataFrom(_, _, _)
validateFlagsMetadataFrom(cmd, k, seenShorts) ==
    IF k > Len(cmd.FlagsMetadata) THEN NoErr
    ELSE LET fm == cmd.FlagsMetadata[k]
         IN  IF Lookup(cmd.Flags, fm.Name) = 0
             THEN Err("validate", "flag metadata references unknown flag")
             ELSE IF fm.Short = "" THEN validateFlagsMetadataFrom(cmd, k + 1, seenShorts)
             ELSE IF badShort(fm.Short)
             THEN Err("validate", "short alias must be a single ASCII letter")
             ELSE IF fm.Short \in seenShorts
             THEN Err("validate", "duplicate short flag")
             ELSE validateFlagsMetadataFrom(cmd, k + 1, seenShorts \cup {fm.Short})

validateFlagsMetadata(cmd) == validateFlagsMetadataFrom(cmd, 1, {})

RECURSIVE validateCommands(_, _)
RECURSIVE validateSubs(_, _, _)
validateSubs(tree, subs, k) ==
    IF k > Len(subs) THEN NoErr
    ELSE LET e == validateCommands(tree, subs[k])
         IN  IF e # NoErr THEN e ELSE validateSubs(tree, subs, k + 1)

\* validateCommands looking at the one command only, not at its subcommands.
validateCommandsRootOnly(tree, c) ==
    IF tree[c].Name = "" THEN Err("validate", "command has no name")
    ELSE IF ~validateName(tree[c].Name) THEN Err("validate", "name must start with a letter")
    ELSE validateFlagsMetadata(tree[c])

validateCommands(tree, c) ==
    IF tree[c].Name = "" THEN Err("validate", "command has no name")
    ELSE IF ~validateName(tree[c].Name) THEN Err("validate", "name must start with a letter")
    ELSE IF validateFlagsMetadata(tree[c]) # NoErr THEN validateFlagsMetadata(tree[c])
    ELSE validateSubs(tree, tree[c].SubCommands, 1)

(***************************************************************************)
(* splitAtDelimiter and resolveCommandPath (parse.go).                     *)
(***************************************************************************)
\* A variant that leaves the delimiter at the head of the remaining args (args[i:]).
splitAtDelimiterKeepingIt(args) ==
    IF \E i \in 1..Len(args) : args[i] = "--"
    THEN LET i == CHOOSE j \in 1..Len(args) :
                      args[j] = "--" /\ \A k \in 1..(j - 1) : args[k] # "--"
         IN  [argsToParse |-> SubSeq(args, 1, i - 1), remaining |-> SubSeq(args, i, Len(args))]
    ELSE [argsToParse |-> args, remaining |-> << >>]

splitAtDelimiter(args) ==
    IF \E i \in 1..Len(args) : args[i] = "--"
    THEN LET i == CHOOSE j \in 1..Len(args) :
                      args[j] = "--" /\ \A k \in 1..(j - 1) : args[k] # "--"
         IN  [argsToParse |-> SubSeq(args, 1, i - 1), remaining |-> SubSeq(args, i + 1, Len(args))]
    ELSE [argsToParse |-> args, remaining |-> << >>]

\* A lookup among all the commands of the tree instead of the children of c.
findSubCommandAnywhere(tree, c, arg) ==
    LET hit(k) == k # c /\ EqualFold(tree[k].Name, arg)
    IN  IF \E k \in 1..Len(tree) : hit(k)
        THEN CHOOSE k \in 1..Len(tree) : hit(k) /\ \A j \in 1..(k - 1) : ~hit(j)
        ELSE 0

\* Command.findSubCommand: the first subcommand whose name folds to arg's, 0 for none
findSubCommand(tree, c, arg) ==
    LET subs == tree[c].SubCommands
        hit(k) == EqualFold(tree[subs[k]].Name, arg)
    IN  IF \E k \in 1..Len(subs) : hit(k)
        THEN subs[CHOOSE k \in 1..Len(subs) : hit(k) /\ \A j \in 1..(k - 1) : ~hit(j)]
        ELSE 0

\* The flag of cmd that name denotes in resolveCommandPath: the flag of that name, else
\* the flag of the first metadata entry whose Short is name; 0 when there is none.
flagOrAlias(cmd, name) ==
    IF Lookup(cmd.Flags, name) # 0 THEN Lookup(cmd.Flags, name)
    ELSE LET md == cmd.FlagsMetadata
             hit(k) == md[k].Short = name
         IN  IF \E k \in 1..Len(md) : hit(k)
             THEN Lookup(cmd.Flags,
                         md[CHOOSE k \in 1..Len(md) : hit(k) /\ \A j \in 1..(k - 1) : ~hit(j)].Name)
             ELSE 0

\* The inner loop over root.state.path: the first command that knows the flag decides.
skipValue(tree, path, name) ==
    LET knows(p) == flagOrAlias(tree[path[p]], name) # 0
    IN  IF \E p \in 1..Len(path) : knows(p)
        THEN LET p == CHOOSE q \in 1..Len(path) : knows(q) /\ \A j \in 1..(q - 1) : ~knows(j)
                 cmd == tree[path[p]]
             IN  ~cmd.Flags[flagOrAlias(cmd, name)].IsBool
        ELSE FALSE

\* The loop of resolveCommandPath from token i on.  walk records, for each token the loop
\* looked at, whether it took it as a flag or tried it as a command name, and how many
\* commands root.state.path held then; the code keeps no such record.
RECURSIVE resolveFrom(_, _, _, _, _)
resolveFrom(tree, argsToParse, i, path, walk) ==
    LET current == path[Len(path)]
        asFlag == Append(walk, [at |-> i, as |-> "flag", depth |-> Len(path)])
        asCommand == Append(walk, [at |-> i, as |-> "command", depth |-> Len(path)])
    IN  IF i > Len(argsToParse) THEN [path |-> path, err |-> NoErr, walk |-> walk]
        ELSE LET arg == argsToParse[i]
             IN  IF HasPrefix(arg, "-")
                 THEN IF Contains(arg, "=")
                      THEN resolveFrom(tree, argsToParse, i + 1, path, asFlag)
                      ELSE IF skipValue(tree, path, TrimLeft(arg, "-"))
                      THEN resolveFrom(tree, argsToParse, i + 2, path, asFlag)
                      ELSE resolveFrom(tree, argsToParse, i + 1, path, asFlag)
                 ELSE IF Len(tree[current].SubCommands) > 0
                 THEN IF findSubCommand(tree, current, arg) # 0
                      THEN resolveFrom(tree, argsToParse, i + 1,
                                       Append(path, findSubCommand(tree, current, arg)),
                                       asCommand)
                      ELSE [path |-> path, err |-> Err("unknown command", arg),
                            walk |-> asCommand]
                 ELSE [path |-> path, err |-> NoErr, walk |-> walk]

\* Returns root.state.path as the walk leaves it, and the error; the terminal command
\* is the last command of the path.
resolveCommandPath(tree, argsToParse) == resolveFrom(tree, argsToParse, 1, << 1 >>, << >>)

(***************************************************************************)
(* combineFlags (parse.go).  The combined FlagSet maps a name to the Value *)
(* it was registered with: the cell of flag `flag` of command `cmd`.       *)
(***************************************************************************)
\* shortFlagMap(metadata)[name]: the Short of the last entry for name that has one, else ""
shortFlagMap(metadata, name) ==
    LET hit(k) == metadata[k].Name = name /\ metadata[k].Short # ""
    IN  IF \E k \in 1..Len(metadata) : hit(k)
        THEN metadata[CHOOSE k \in 1..Len(metadata) :
                          hit(k) /\ \A j \in (k + 1)..Len(metadata) : ~hit(j)].Short
        ELSE ""

\* combined.Var(f.Value, name, f.Usage) when combined.Lookup(name) == nil
register(combined, name, c, f) ==
    IF name \in DOMAIN combined THEN combined
    ELSE combined @@ (name :> [cmd |-> c, flag |-> f.Name, IsBool |-> f.IsBool])

\* The VisitAll callback applied to the flags k.. of command c.
RECURSIVE visitAllFrom(_, _, _, _)
visitAllFrom(combined, tree, c, k) ==
    IF k > Len(tree[c].Flags) THEN combined
    ELSE LET f == tree[c].Flags[k]
             withLong == register(combined, f.Name, c, f)
             short == shortFlagMap(tree[c].FlagsMetadata, f.Name)
             withShort == IF short # "" THEN register(withLong, short, c, f) ELSE withLong
         IN  visitAllFrom(withShort, tree, c, k + 1)

RECURSIVE combineFrom(_, _, _, _)
combineFrom(combined, tree, path, i) ==
    IF i < 1 THEN combined
    ELSE combineFrom(visitAllFrom(combined, tree, path[i], 1), tree, path, i - 1)

\* combineFlags over every command of the tree, on the path or not.
combineFlagsWholeTree(tree, path) ==
    combineFrom(<< >>, tree, [k \in 1..Len(tree) |-> k], Len(tree))

\* combineFlags walking the path from the root down, so that the first declaration of a
\* name, not the deepest, is the one registered.
combineFlagsRootFirst(tree, path) ==
    combineFrom(<< >>, tree, [k \in 1..Len(path) |-> path[Len(path) + 1 - k]], Len(path))

\* combineFlags leaving a flag marked Local out of the flag set of a descendant.
combineFlagsHidingLocal(tree, path) ==
    LET isLocal(c, f) == \E k \in 1..Len(tree[c].FlagsMetadata) :
                            tree[c].FlagsMetadata[k].Name = f.Name /\ tree[c].FlagsMetadata[k].Local
        shown(c) == SelectSeq(tree[c].Flags,
                              LAMBDA f : c = path[Len(path)] \/ ~isLocal(c, f))
        hidden == [c \in 1..Len(tree) |-> [tree[c] EXCEPT !.Flags = shown(c)]]
    IN  combineFrom(<< >>, hidden, path, Len(path))

combineFlags(tree, path) == combineFrom(<< >>, tree, path, Len(path))

(***************************************************************************)
(* The flag package's FlagSet.Parse, and xflag.ParseToEnd over it.  A      *)
(* FlagSet is its formal flags, the cells their Values point to, the       *)
(* names in its actual map and its remaining args.                         *)
(***************************************************************************)
FlagSet(formal, cells) == [formal |-> formal, cells |-> cells, actual |-> {}, args |-> << >>]

\* Value.Set on the cell a formal flag points to, and the entry in f.actual
setFlag(fs, name, value) ==
    LET ref == fs.formal[name]
    IN  [fs EXCEPT !.cells[ref.cmd][ref.flag] = value, !.actual = @ \cup {name}]

\* The name and the value of a flag token whose leading dashes are stripped.
cutAtEquals(name) ==
    IF \E i \in 2..Len(name) : Char(name, i) = "="
    THEN LET i == CHOOSE j \in 2..Len(name) :
                      Char(name, j) = "=" /\ \A k \in 2..(j - 1) : Char(name, k) # "="
         IN  [name |-> SubSeq(name, 1, i - 1), value |-> SubSeq(name, i + 1, Len(name)),
              hasValue |-> TRUE]
    ELSE [name |-> name, value |-> "", hasValue |-> FALSE]

\* FlagSet.parseOne: [seen, err, fs]
parseOne(fs) ==
    IF Len(fs.args) = 0 THEN [seen |-> FALSE, err |-> NoErr, fs |-> fs]
    ELSE
    LET s == fs.args[1]
    IN  IF Len(s) < 2 \/ Char(s, 1) # "-" THEN [seen |-> FALSE, err |-> NoErr, fs |-> fs]
        ELSE IF s = "--"
        THEN [seen |-> FALSE, err |-> NoErr, fs |-> [fs EXCEPT !.args = Tail(@)]]
        ELSE
        LET numMinuses == IF Char(s, 2) = "-" THEN 2 ELSE 1
            rest == SubSeq(s, numMinuses + 1, Len(s))
        IN  IF Len(rest) = 0 \/ Char(rest, 1) = "-" \/ Char(rest, 1) = "="
            THEN [seen |-> FALSE, err |-> Err("bad flag syntax", s), fs |-> fs]
            ELSE
            LET cut == cutAtEquals(rest)
                name == cut.name
                f1 == [fs EXCEPT !.args = Tail(@)]
            IN  IF name \notin DOMAIN fs.formal
                THEN IF name = "help" \/ name = "h"
                     THEN [seen |-> FALSE, err |-> ErrHelp, fs |-> f1]
                     ELSE [seen |-> FALSE, err |-> Err("flag provided but not defined", name),
                           fs |-> f1]
                ELSE IF fs.formal[name].IsBool
                THEN IF cut.hasValue
                     THEN IF cut.value \in BoolTrueLits
                          THEN [seen |-> TRUE, err |-> NoErr, fs |-> setFlag(f1, name, "true")]
                          ELSE IF cut.value \in BoolFalseLits
                          THEN [seen |-> TRUE, err |-> NoErr, fs |-> setFlag(f1, name, "false")]
                          ELSE [seen |-> FALSE, err |-> Err("invalid boolean value", name),
                                fs |-> f1]
                     ELSE [seen |-> TRUE, err |-> NoErr, fs |-> setFlag(f1, name, "true")]
                ELSE IF cut.hasValue
                THEN [seen |-> TRUE, err |-> NoErr, fs |-> setFlag(f1, name, cut.value)]
                ELSE IF Len(f1.args) > 0
                THEN [seen |-> TRUE, err |-> NoErr,
                      fs |-> setFlag([f1 EXCEPT !.args = Tail(@)], name, f1.args[1])]
                ELSE [seen |-> FALSE, err |-> Err("flag needs an argument", name), fs |-> f1]

RECURSIVE parseLoop(_)
parseLoop(fs) ==
    LET r == parseOne(fs)
    IN  IF r.seen THEN parseLoop(r.fs) ELSE [err |-> r.err, fs |-> r.fs]

\* FlagSet.Parse(arguments) with ContinueOnError: [err, fs]
FlagSetParse(fs, arguments) == parseLoop([fs EXCEPT !.args = arguments])

\* The loop of ParseToEnd over the arguments the first Parse left: a flag-looking
\* token resumes flag parsing there, anything else is collected as positional.
\* The end of ParseToEnd: the collected positionals are handed to Parse behind a "--";
\* with none collected, Args() stays what the last Parse left.
parseToEndRest(fs, args) ==
    IF Len(args) > 0 THEN FlagSetParse(fs, << "--" >> \o args)
    ELSE [err |-> NoErr, fs |-> fs]

RECURSIVE parseToEndLoop(_, _, _, _)
parseToEndLoop(fs, remainingArgs, i, args) ==
    IF i > Len(remainingArgs)
    THEN parseToEndRest(fs, args)
    ELSE LET arg == remainingArgs[i]
         IN  IF Len(arg) > 1 /\ Char(arg, 1) = "-"
             THEN IF arg = "--"
                  THEN parseToEndRest(fs, args \o SubSeq(remainingArgs, i + 1,
                                                         Len(remainingArgs)))
                  ELSE LET r == FlagSetParse(fs, SubSeq(remainingArgs, i, Len(remainingArgs)))
                       IN  IF r.err # NoErr THEN r
                           ELSE parseToEndLoop(r.fs, r.fs.args, 1, args)
             ELSE parseToEndLoop(fs, remainingArgs, i + 1, Append(args, arg))

\* ParseToEnd that stops, as FlagSet.Parse does, at the first positional argument.
ParseToEndFirstOnly(fs, arguments) == FlagSetParse(fs, arguments)

\* xflag.ParseToEnd(f, arguments): [err, fs]; fs.args is f.Args(), fs.actual what Visit sees
ParseToEnd(fs, arguments) ==
    LET r == FlagSetParse(fs, arguments)
    IN  IF r.err # NoErr \/ Len(r.fs.args) = 0 THEN r
        ELSE parseToEndLoop(r.fs, r.fs.args, 1, << >>)

(***************************************************************************)
(* checkRequiredFlags, collectArgs and Parse (parse.go).                   *)
(***************************************************************************)
formatFlagName(name) == "-" \o name

\* The names of the commands of the path, joined by spaces.
getCommandPath(tree, path) == Join([k \in 1..Len(path) |-> tree[path[k]].Name], " ")

\* A looser test than the setFlags lookup: some visited name begins with the name.
isSetPrefix(fs, name) == \E n \in fs.actual : HasPrefix(n, name)

\* The setFlags map built from combined.Visit, asked for one name.
isSet(fs, name) == name \in fs.actual

\* The loops of checkRequiredFlags from metadata entry k of path[p] on: the internal
\* error of the first required flag the combined set lacks, else the missing flags.
RECURSIVE requiredFrom(_, _, _, _, _, _)
requiredFrom(tree, path, fs, p, k, missingFlags) ==
    IF p > Len(path) THEN [NoErr EXCEPT !.missing = missingFlags]
    ELSE IF k > Len(tree[path[p]].FlagsMetadata)
    THEN requiredFrom(tree, path, fs, p + 1, 1, missingFlags)
    ELSE LET flagMetadata == tree[path[p]].FlagsMetadata[k]
         IN  IF ~flagMetadata.Required
             THEN requiredFrom(tree, path, fs, p, k + 1, missingFlags)
             ELSE IF flagMetadata.Name \notin DOMAIN fs.formal
             THEN [Err("internal error: required flag not found", flagMetadata.Name)
                     EXCEPT !.at = getCommandPath(tree, path)]
             ELSE IF ~isSet(fs, flagMetadata.Name)
             THEN requiredFrom(tree, path, fs, p, k + 1,
                               Append(missingFlags, formatFlagName(flagMetadata.Name)))
             ELSE requiredFrom(tree, path, fs, p, k + 1, missingFlags)

\* checkRequiredFlags looking at the terminal command's metadata only.
checkRequiredFlagsTerminalOnly(tree, path, fs) ==
    LET r == requiredFrom(tree, path, fs, Len(path), 1, << >>)
    IN  IF r.kind # "nil" THEN r
        ELSE IF Len(r.missing) > 0
        THEN [kind |-> "required flags not set", name |-> Join(r.missing, ", "),
              missing |-> r.missing, at |-> getCommandPath(tree, path)]
        ELSE NoErr

\* fs is the combined FlagSet after ParseToEnd; fs.actual is what combined.Visit yields.
checkRequiredFlags(tree, path, fs) ==
    LET r == requiredFrom(tree, path, fs, 1, 1, << >>)
    IN  IF r.kind # "nil" THEN r
        ELSE IF Len(r.missing) > 0
        THEN [kind |-> "required flags not set", name |-> Join(r.missing, ", "),
              missing |-> r.missing, at |-> getCommandPath(tree, path)]
        ELSE NoErr

RECURSIVE stripCommands(_, _, _, _, _)
stripCommands(tree, path, parsed, startIdx, chainIdx) ==
    IF startIdx <= Len(parsed) /\ chainIdx <= Len(path)
       /\ EqualFold(parsed[startIdx], tree[path[chainIdx]].Name)
    THEN stripCommands(tree, path, parsed, startIdx + 1, chainIdx + 1)
    ELSE startIdx

\* collectArgs dropping every leading token that names a command of the path.
collectArgsStripAll(tree, path, parsed, remaining) ==
    LET named(k) == \E c \in 2..Len(path) : EqualFold(parsed[k], tree[path[c]].Name)
        startIdx == IF \E k \in 1..Len(parsed) : ~named(k)
                    THEN CHOOSE k \in 1..Len(parsed) : ~named(k) /\ \A j \in 1..(k - 1) : named(j)
                    ELSE Len(parsed) + 1
    IN  SubSeq(parsed, startIdx, Len(parsed)) \o remaining

collectArgs(tree, path, parsed, remaining) ==
    LET startIdx == stripCommands(tree, path, parsed, 1, 2)
    IN  SubSeq(parsed, startIdx, Len(parsed)) \o remaining

\* The help test without the one-letter spellings.
IsHelpTokenLongOnly(arg) == arg = "-help" \/ arg = "--help"

IsHelpToken(arg) == arg = "-h" \/ arg = "--h" \/ arg = "-help" \/ arg = "--help"

\* Parse with the handler test moved up, ahead of the flag parse and the required check.
ParseExecFirst(tree, cells, st, args) ==
    IF validateCommands(tree, 1) # NoErr
    THEN [err |-> validateCommands(tree, 1), cells |-> cells, path |-> st.path, Args |-> st.Args]
    ELSE
    LET split == splitAtDelimiter(args)
        res == resolveCommandPath(tree, split.argsToParse)
        current == res.path[Len(res.path)]
    IN  IF res.err # NoErr
        THEN [err |-> res.err, cells |-> cells, path |-> res.path, Args |-> st.Args]
        ELSE IF \E i \in 1..Len(split.argsToParse) : IsHelpToken(split.argsToParse[i])
        THEN [err |-> ErrHelp, cells |-> cells, path |-> res.path, Args |-> st.Args]
        ELSE IF ~tree[current].Exec
        THEN [err |-> [Err("no exec function defined", "")
                          EXCEPT !.at = getCommandPath(tree, res.path)], cells |-> cells,
              path |-> res.path, Args |-> st.Args]
        ELSE
        LET combinedFlags == FlagSet(combineFlags(tree, res.path), cells)
            parsed == ParseToEnd(combinedFlags, split.argsToParse)
        IN  IF parsed.err # NoErr
            THEN [err |-> [parsed.err EXCEPT !.kind = "command: " \o @,
                                             !.at = getCommandPath(tree, res.path)],
                  cells |-> parsed.fs.cells, path |-> res.path, Args |-> st.Args]
            ELSE
            LET req == checkRequiredFlags(tree, res.path, parsed.fs)
            IN  IF req # NoErr
                THEN [err |-> req, cells |-> parsed.fs.cells, path |-> res.path,
                      Args |-> st.Args]
                ELSE [err |-> NoErr, cells |-> parsed.fs.cells, path |-> res.path,
                      Args |-> collectArgs(tree, res.path, parsed.fs.args, split.remaining)]

\* Parse(root, args) on a tree whose flag Values hold cells and whose root.state holds
\* st = [path, Args] (path << >> while root.state is nil): the error returned, the
\* cells and root.state afterwards.
Parse(tree, cells, st, args) ==
    IF validateCommands(tree, 1) # NoErr
    THEN [err |-> validateCommands(tree, 1), cells |-> cells, path |-> st.path, Args |-> st.Args]
    ELSE
    LET split == splitAtDelimiter(args)
        res == resolveCommandPath(tree, split.argsToParse)
        current == res.path[Len(res.path)]
    IN  IF res.err # NoErr
        THEN [err |-> res.err, cells |-> cells, path |-> res.path, Args |-> st.Args]
        ELSE IF \E i \in 1..Len(split.argsToParse) : IsHelpToken(split.argsToParse[i])
        THEN [err |-> ErrHelp, cells |-> cells, path |-> res.path, Args |-> st.Args]
        ELSE
        LET combinedFlags == FlagSet(combineFlags(tree, res.path), cells)
            parsed == ParseToEnd(combinedFlags, split.argsToParse)
        IN  IF parsed.err # NoErr
            THEN [err |-> [parsed.err EXCEPT !.kind = "command: " \o @,
                                             !.at = getCommandPath(tree, res.path)],
                  cells |-> parsed.fs.cells, path |-> res.path, Args |-> st.Args]
            ELSE
            LET req == checkRequiredFlags(tree, res.path, parsed.fs)
            IN  IF req # NoErr
                THEN [err |-> req, cells |-> parsed.fs.cells, path |-> res.path,
                      Args |-> st.Args]
                ELSE [err |-> IF tree[current].Exec THEN NoErr
                              ELSE [Err("no exec function defined", "")
                                      EXCEPT !.at = getCommandPath(tree, res.path)],
                      cells |-> parsed.fs.cells, path |-> res.path,
                      Args |-> collectArgs(tree, res.path, parsed.fs.args, split.remaining)]

\* errors.Is(err, flag.ErrHelp), the test callers make (run.go:68): Parse's own ErrHelp
\* and the flag package's, which Parse wraps with %w.
IsErrHelp(err) == err.kind \in {"help", "command: help"}

(***************************************************************************)
(* Run, ParseAndRun (run.go) and DefaultUsage (usage.go).                  *)
(***************************************************************************)
\* What a command's Exec does when it is called.
HandlerOutcomes ==
    { "return nil", "return error", "panic error", "panic internalError", "panic value" }

\* What a command's UsageFunc is: nil, a function with a text of its own, or one that
\* calls DefaultUsage on the command it is given and adds to the result.
UsageFuncKinds == { "nil", "custom", "wraps DefaultUsage" }

\* *RunOptions: nil, or the three streams, each nil or given.
RunOptions(given, stdin, stdout, stderr) ==
    [given |-> given, Stdin |-> stdin, Stdout |-> stdout, Stderr |-> stderr]
NilOptions == RunOptions(FALSE, "nil", "nil", "nil")
OptionsSet ==
    { NilOptions,
      RunOptions(TRUE, "in", "nil", "err"),
      RunOptions(TRUE, "nil", "out", "nil") }

\* checkAndSetRunOptions putting the process streams in place of the given ones too.
checkAndSetRunOptionsProcessOnly(opt) ==
    [given |-> TRUE, Stdin |-> "os.Stdin", Stdout |-> "os.Stdout", Stderr |-> "os.Stderr"]

checkAndSetRunOptions(opt) ==
    [given |-> TRUE,
     Stdin |-> IF opt.Stdin = "nil" THEN "os.Stdin" ELSE opt.Stdin,
     Stdout |-> IF opt.Stdout = "nil" THEN "os.Stdout" ELSE opt.Stdout,
     Stderr |-> IF opt.Stderr = "nil" THEN "os.Stderr" ELSE opt.Stderr]

\* The streams of a State nobody has set.
NoStreams == [Stdin |-> "nil", Stdout |-> "nil", Stderr |-> "nil"]

updateState(s, opt) ==
    [Stdin |-> IF s.Stdin = "nil" THEN opt.Stdin ELSE s.Stdin,
     Stdout |-> IF s.Stdout = "nil" THEN opt.Stdout ELSE s.Stdout,
     Stderr |-> IF s.Stderr = "nil" THEN opt.Stderr ELSE s.Stderr]

\* Command.terminal on command c whose state holds the path pth (<< >> for a nil state)
terminal(c, pth) == IF Len(pth) = 0 THEN c ELSE pth[Len(pth)]

\* What Run and ParseAndRun return: kind tells the return statement, location whether
\* the message carries the source location of a panic.
Ret(kind, detail, location) == [kind |-> kind, detail |-> detail, location |-> location]
NoRet == Ret("none", "", FALSE)

\* run: cmd.Exec under the deferred recover.  A nil Exec panics with a runtime error.
run(tree, cmd, handler) ==
    IF ~tree[cmd].Exec
    THEN [ret |-> Ret("panic", "nil Exec", TRUE), invoked |-> FALSE]
    ELSE [invoked |-> TRUE,
          ret |-> CASE handler = "return nil" -> Ret("nil", "", FALSE)
                    [] handler = "return error" -> Ret("handler error", "", FALSE)
                    [] handler = "panic internalError" -> Ret("internal error", "", FALSE)
                    [] handler = "panic error" -> Ret("panic", "error", TRUE)
                    [] handler = "panic value" -> Ret("panic", "value", FALSE)]

\* Run(ctx, root, options) with root.state holding pth and the streams s.
Run(tree, pth, s, handler, options) ==
    IF Len(pth) = 0
    THEN [ret |-> Ret("command not parsed", "", FALSE), invoked |-> FALSE, streams |-> s]
    ELSE LET r == run(tree, terminal(1, pth), handler)
         IN  [ret |-> r.ret, invoked |-> r.invoked,
              streams |-> updateState(s, checkAndSetRunOptions(options))]

\* A rendering: the text, the functions called to make it, in order, and whether it
\* came to an end within MaxDepth nested calls.
Rendering(text, calls, done) == [text |-> text, calls |-> calls, done |-> done]
NoRendering == Rendering("", << >>, TRUE)

RECURSIVE DefaultUsage(_, _, _, _, _, _)

\* DefaultUsage as it was before the UsageFunc test was taken out of it: a UsageFunc
\* of the terminal command is called in its place, and one that wraps DefaultUsage
\* comes back here.
DefaultUsageDispatching(tree, uf, c, pth, walked, depth) ==
    LET terminalCmd == terminal(c, pth)
        name == IF Len(pth) > 0 THEN getCommandPath(tree, pth) ELSE tree[terminalCmd].Name
    IN  CASE uf = "nil" -> Rendering("Usage:\n  " \o name, << "DefaultUsage" >>, TRUE)
          [] uf = "custom" ->
                Rendering("usage of " \o tree[terminalCmd].Name,
                          << "DefaultUsage", "UsageFunc" >>, TRUE)
          [] uf = "wraps DefaultUsage" ->
                IF depth + 2 > MaxDepth
                THEN Rendering("", << "DefaultUsage", "UsageFunc" >>, FALSE)
                ELSE LET d == DefaultUsage(tree, uf, terminalCmd,
                                           IF terminalCmd = 1 THEN pth ELSE << >>,
                                           walked, depth + 2)
                     IN  Rendering(d.text \o "\n\nExamples:",
                                   << "DefaultUsage", "UsageFunc" >> \o d.calls, d.done)

\* DefaultUsage(c) where c.state holds pth: the usage line.  walked are the commands a
\* Parse has given a FlagSet; uf, the UsageFunc of the commands, is not looked at.  The
\* command and flag listings that follow the usage line are left out.
DefaultUsage(tree, uf, c, pth, walked, depth) ==
    LET terminalCmd == terminal(c, pth)
        name == IF Len(pth) > 0 THEN getCommandPath(tree, pth) ELSE tree[terminalCmd].Name
        flags == IF Len(tree[terminalCmd].Flags) > 0 \/ terminalCmd \in walked
                 THEN " [flags]" ELSE ""
        command == IF Len(tree[terminalCmd].SubCommands) > 0 THEN " <command>" ELSE ""
    IN  Rendering("Usage:\n  " \o name \o flags \o command, << "DefaultUsage" >>, TRUE)

\* Command.UsageFunc of kind uf called with the command c.  Only the root holds a
\* state, so it is the command itself DefaultUsage works on unless c is the root.
UsageFunc(tree, uf, c, pth, walked, depth) ==
    IF uf = "custom" THEN Rendering("usage of " \o tree[c].Name, << "UsageFunc" >>, TRUE)
    ELSE IF depth >= MaxDepth THEN Rendering("", << "UsageFunc" >>, FALSE)
    ELSE LET d == DefaultUsage(tree, uf, c, IF c = 1 THEN pth ELSE << >>, walked, depth + 1)
         IN  Rendering(d.text \o "\n\nExamples:", << "UsageFunc" >> \o d.calls, d.done)

\* ParseAndRun after its call of Parse returned p: the usage on help, the error on
\* any other failure, else Run.
usageOrRun(tree, p, streams, uf, handler, options) ==
    LET base == [err |-> p.err, cells |-> p.cells, path |-> p.path, Args |-> p.Args,
                 streams |-> streams, invoked |-> FALSE,
                 written |-> << >>, rendered |-> NoRendering, ret |-> NoRet]
    IN  IF p.err # NoErr
        THEN IF IsErrHelp(p.err)
             THEN LET usage == DefaultUsage(tree, uf, 1, p.path, Range(p.path), 0)
                  IN  [base EXCEPT !.written = << [to |-> checkAndSetRunOptions(options).Stdout,
                                                   text |-> usage.text \o "\n"] >>,
                                   !.rendered = usage,
                                   !.ret = Ret("nil", "", FALSE)]
             ELSE [base EXCEPT !.ret = Ret("parse error", p.err.kind, FALSE)]
        ELSE LET r == Run(tree, p.path, streams, handler, options)
             IN  [base EXCEPT !.ret = r.ret, !.invoked = r.invoked, !.streams = r.streams]

\* ParseAndRun(ctx, root, args, options)
ParseAndRun(tree, cells, st, streams, uf, handler, args, options) ==
    usageOrRun(tree, Parse(tree, cells, st, args), streams, uf, handler, options)

(***************************************************************************)
(* The state machine: one tree, parsed MaxParses times in sequence.        *)
(***************************************************************************)
VARIABLES
    root,    \* the command tree the application built (an index into Trees)
    cells,   \* cells[c][name]: the current value of flag name of command c
    path,    \* root.state.path, << >> while root.state is nil
    Args,    \* root.state.Args
    args,    \* the token list of the last Parse call
    err,     \* the error the last Parse call returned
    parses,  \* the number of Parse calls made so far
    handler,   \* what the Exec of the tree's commands does when called
    usageFunc, \* the UsageFunc of the tree's commands
    streams,   \* root.state.Stdin, Stdout, Stderr
    ret,       \* what the last Run or ParseAndRun call returned
    invoked,   \* the commands whose Exec was called, in order
    written,   \* what was written to standard output streams, in order
    rendered,  \* the last usage rendering
    opts,      \* the options of the last Run or ParseAndRun call
    runs,      \* the number of Run and ParseAndRun calls made so far
    cfg,         \* graceful.Run: the config its options made
    pc,          \* graceful.Run: where its goroutine stands
    fn,          \* graceful.Run: the goroutine of the run function, running or returned
    ctxErr,      \* graceful.Run: ctx.Err() of the context given to the run function
    done,        \* graceful.Run: the done channel, of capacity 1
    second,      \* graceful.Run: the signals waiting in the second channel, of capacity 1
    timeoutChan, \* graceful.Run: the termination timer, nil, running or fired
    exitCode,    \* graceful.Run: the code given to os.Exit, -1 while the process lives
    stderr,      \* graceful.Run: the messages written to cfg.stderr, in order
    arrivals,    \* history: for each interrupt signal, what it found on arrival
    expiredWhile \* history: what the run function was doing when the termination timer fired

parseVars == << root, cells, path, Args, args, err, parses >>
runVars == << handler, usageFunc, streams, ret, invoked, written, rendered, opts, runs >>
gracefulVars ==
    << cfg, pc, fn, ctxErr, done, second, timeoutChan, exitCode, stderr, arrivals, expiredWhile >>
vars == << parseVars, runVars, gracefulVars >>

\* Before any Run: no streams set, nothing returned, called, written or rendered.
NothingRun ==
    /\ streams = NoStreams
    /\ ret = NoRet
    /\ invoked = << >>
    /\ written = << >>
    /\ rendered = NoRendering
    /\ opts = NilOptions
    /\ runs = 0

\* An application whose handlers return nil and whose commands have no UsageFunc.
PlainApplication == handler = "return nil" /\ usageFunc = "nil"

\* The config of graceful.Run: whether WithRunTimeout and WithTerminationTimeout gave a
\* positive duration, and WithImmediateTermination.
Config(runTimeout, shutdownTimeout, immediateTermination) ==
    [runTimeout |-> runTimeout, shutdownTimeout |-> shutdownTimeout,
     immediateTermination |-> immediateTermination]

\* graceful.Run with the given config has started the run function and is about to
\* enter its first select.
Started(c) ==
    /\ cfg = c
    /\ pc = "select 1"
    /\ fn = "running"
    /\ ctxErr = "nil"
    /\ done = << >>
    /\ second = 0
    /\ timeoutChan = "nil"
    /\ exitCode = -1
    /\ stderr = << >>
    /\ arrivals = << >>
    /\ expiredWhile = "none"

\* A command-line application that does not run under graceful.Run: the process state
\* is that of a Run without options, which no action of the application moves.
NoProcess == Started(Config(FALSE, FALSE, FALSE))

\* FlagsFunc: every flag Value starts at its declared default.
DefaultCells(tree) ==
    [c \in 1..Len(tree) |->
        [n \in {tree[c].Flags[k].Name : k \in 1..Len(tree[c].Flags)} |->
            tree[c].Flags[Lookup(tree[c].Flags, n)].DefValue]]

Init ==
    /\ root \in 1..Len(Trees)
    /\ cells = DefaultCells(Trees[root])
    /\ path = << >>
    /\ Args = << >>
    /\ args = << >>
    /\ err = NoErr
    /\ parses = 0
    /\ PlainApplication
    /\ NothingRun
    /\ NoProcess

ParseCall(a) ==
    /\ parses < MaxParses
    /\ \E r \in { Parse(Trees[root], cells, [path |-> path, Args |-> Args], a) } :
           /\ cells' = r.cells
           /\ path' = r.path
           /\ Args' = r.Args
           /\ err' = r.err
    /\ args' = a
    /\ parses' = parses + 1
    /\ UNCHANGED << root, runVars >>
    /\ UNCHANGED gracefulVars

Next == \E a \in TokenLists(Tokens[root], MaxLen) : ParseCall(a)

Spec == Init /\ [][Next]_vars

(***************************************************************************)
(* A single Parse call on a tree whose flag Values hold any values an      *)
(* earlier call or the application may have left in them.                  *)
(***************************************************************************)
\* A value other than the default that a flag's Value may hold before the call.
OtherValue(f) == IF ~f.IsBool THEN "old" ELSE IF f.DefValue = "true" THEN "false" ELSE "true"

InitOnce ==
    /\ root \in 1..Len(Trees)
    /\ LET tree == Trees[root]
           all == UNION { { << c, n >> : n \in DOMAIN DefaultCells(tree)[c] } : c \in 1..Len(tree) }
       IN  \E changed \in SUBSET all :
              cells = [c \in 1..Len(tree) |->
                         [n \in DOMAIN DefaultCells(tree)[c] |->
                            LET f == tree[c].Flags[Lookup(tree[c].Flags, n)]
                            IN  IF << c, n >> \in changed THEN OtherValue(f) ELSE f.DefValue]]
    /\ path = << >>
    /\ Args = << >>
    /\ args = << >>
    /\ err = NoErr
    /\ parses = 0
    /\ PlainApplication
    /\ NothingRun
    /\ NoProcess

ParseOnce(a) == parses = 0 /\ ParseCall(a)

NextOnce == \E a \in TokenLists(Tokens[root], MaxLen) : ParseOnce(a)

SpecOnce == InitOnce /\ [][NextOnce]_vars

(***************************************************************************)
(* An application that parses and runs: Parse and Run called separately,   *)
(* or ParseAndRun, on a tree whose handlers and UsageFunc are given.       *)
(***************************************************************************)
\* The trees the running application is built from.
RunRoots == { 3, 5, 6 }

InitRun ==
    /\ root \in RunRoots
    /\ cells = DefaultCells(Trees[root])
    /\ path = << >>
    /\ Args = << >>
    /\ args = << >>
    /\ err = NoErr
    /\ parses = 0
    /\ \/ handler \in HandlerOutcomes /\ usageFunc = "nil"
       \/ handler = "return nil" /\ usageFunc \in UsageFuncKinds \ { "nil" }
    /\ NothingRun
    /\ NoProcess

RunCall(options) ==
    /\ runs < MaxRuns
    /\ \E r \in { Run(Trees[root], path, streams, handler, options) } :
           /\ ret' = r.ret
           /\ streams' = r.streams
           /\ invoked' = IF r.invoked THEN Append(invoked, terminal(1, path)) ELSE invoked
    /\ opts' = options
    /\ runs' = runs + 1
    /\ UNCHANGED << parseVars, handler, usageFunc, written, rendered >>
    /\ UNCHANGED gracefulVars

ParseAndRunCall(a, options) ==
    /\ parses = 0
    /\ runs < MaxRuns
    /\ \E r \in { ParseAndRun(Trees[root], cells, [path |-> path, Args |-> Args], streams,
                               usageFunc, handler, a, options) } :
           /\ cells' = r.cells
           /\ path' = r.path
           /\ Args' = r.Args
           /\ err' = r.err
           /\ ret' = r.ret
           /\ streams' = r.streams
           /\ invoked' = IF r.invoked THEN Append(invoked, terminal(1, r.path)) ELSE invoked
           /\ written' = written \o r.written
           /\ rendered' = r.rendered
    /\ args' = a
    /\ opts' = options
    /\ parses' = parses + 1
    /\ runs' = runs + 1
    /\ UNCHANGED << root, handler, usageFunc >>
    /\ UNCHANGED gracefulVars

\* The application calls the UsageFunc of the terminal command itself.
UsageFuncCall ==
    /\ parses > 0
    /\ Len(path) > 0
    /\ usageFunc # "nil"
    /\ rendered = NoRendering
    /\ rendered' = UsageFunc(Trees[root], usageFunc, terminal(1, path), path, Range(path), 0)
    /\ UNCHANGED << parseVars, handler, usageFunc, streams, ret, invoked, written, opts, runs >>
    /\ UNCHANGED gracefulVars

NextRun ==
    \/ parses = 0 /\ \E a \in TokenLists(Tokens[root], MaxLen) : ParseCall(a)
    \/ \E options \in OptionsSet : RunCall(options)
    \/ /\ parses = 0
       /\ runs < MaxRuns
       /\ \E a \in TokenLists(Tokens[root], MaxLen), options \in OptionsSet :
              ParseAndRunCall(a, options)
    \/ UsageFuncCall

SpecRun == InitRun /\ [][NextRun]_vars

(***************************************************************************)
(* xflag.ParseToEnd called on a FlagSet of its own, outside any command    *)
(* tree: root is 0 and the only command of the "tree" owns the FlagSet.    *)
(***************************************************************************)
\* newFlagset of the xflag tests: string flags flag1 and flag2, boolean flag3.
TreeFlagset ==
    << Command("name",
               << StringFlag("flag1", "asdf"), StringFlag("flag2", "qwerty"),
                  BoolFlag("flag3", "false") >>,
               << >>, << >>, FALSE) >>

\* The tokens of the xflag tests.
FlagsetTokens == { "--flag1", "--flag2=value2", "-flag3", "arg1", "arg2", "-", "--" }

\* The FlagSet before the call of ParseToEnd.
newFlagset(values) == FlagSet(combineFlags(TreeFlagset, << 1 >>), values)

InitFlags ==
    /\ root = 0
    /\ cells = DefaultCells(TreeFlagset)
    /\ path = << >>
    /\ Args = << >>
    /\ args = << >>
    /\ err = NoErr
    /\ parses = 0
    /\ PlainApplication
    /\ NothingRun
    /\ NoProcess

ParseToEndCall(a) ==
    /\ parses = 0
    /\ \E r \in { ParseToEnd(newFlagset(cells), a) } :
           /\ cells' = r.fs.cells
           /\ Args' = r.fs.args
           /\ err' = r.err
    /\ args' = a
    /\ parses' = parses + 1
    /\ UNCHANGED << root, path, runVars >>
    /\ UNCHANGED gracefulVars

NextFlags == \E a \in TokenLists(FlagsetTokens, MaxLen) : ParseToEndCall(a)

SpecFlags == InitFlags /\ [][NextFlags]_vars

(***************************************************************************)
(* graceful.Run: its goroutine, the goroutine of the run function, the     *)
(* signals the process receives and the two timers.  A goroutine blocked   *)
(* in a select is woken by the first case that becomes ready; a select     *)
(* entered with several cases ready takes any of them.                     *)
(***************************************************************************)
Configs == { Config(r, s, i) : r \in BOOLEAN, s \in BOOLEAN, i \in BOOLEAN }

\* exit(code) after the messages written to cfg.stderr
Exit(code, messages) ==
    /\ pc' = "exited"
    /\ exitCode' = code
    /\ stderr' = stderr \o messages

\* The goroutine of Run goes on without exiting.
Stay == UNCHANGED << pc, exitCode, stderr >>

\* case err := <-done exiting with 0 whatever the run function returned.
TakeDoneAsSuccess(e) == Exit(0, << >>)

\* case err := <-done, of either select
TakeDone(e) == IF e = "nil" THEN Exit(0, << >>) ELSE Exit(1, << "function error" >>)

\* case <-ctx.Done() of the first select
TakeCtxDone ==
    IF cfg.immediateTermination
    THEN Exit(130, << "immediate termination" >>)
    ELSE pc' = "notify" /\ UNCHANGED << exitCode, stderr >>

\* Run enters its first select: a ready case is taken, else it blocks.
Select1 ==
    /\ pc = "select 1"
    /\ \/ done # << >> /\ TakeDone(done[1]) /\ done' = << >>
       \/ ctxErr # "nil" /\ TakeCtxDone /\ UNCHANGED done
       \/ done = << >> /\ ctxErr = "nil" /\ pc' = "parked 1"
                       /\ UNCHANGED << exitCode, stderr, done >>
    /\ UNCHANGED << cfg, fn, ctxErr, second, timeoutChan, arrivals, expiredWhile >>
    /\ UNCHANGED << parseVars, runVars >>

\* done <- run(ctx): the run function returns nil or an error, cancelled or not.
FnReturns(e) ==
    /\ pc # "exited"
    /\ fn = "running"
    /\ fn' = "returned " \o e
    /\ IF pc \in { "parked 1", "parked 2" }
       THEN TakeDone(e) /\ UNCHANGED done
       ELSE done' = << e >> /\ Stay
    /\ UNCHANGED << cfg, ctxErr, second, timeoutChan, arrivals, expiredWhile >>
    /\ UNCHANGED << parseVars, runVars >>

\* The process receives SIGINT or SIGTERM.  signal.NotifyContext cancels ctx on the
\* first one; the second channel gets the signal once signal.Notify registered it.
Signal ==
    /\ pc # "exited"
    /\ Len(arrivals) < MaxSignals
    /\ arrivals' = Append(arrivals, [pc |-> pc, fn |-> fn, timeoutChan |-> timeoutChan])
    /\ ctxErr' = IF ctxErr = "nil" THEN "context canceled" ELSE ctxErr
    /\ CASE pc = "parked 1" -> TakeCtxDone /\ UNCHANGED second
         [] pc = "parked 2" -> Exit(130, << "forced shutdown" >>) /\ UNCHANGED second
         [] pc = "select 2" -> second' = 1 /\ Stay
         [] OTHER -> UNCHANGED second /\ Stay
    /\ UNCHANGED << cfg, fn, done, timeoutChan, expiredWhile >>
    /\ UNCHANGED << parseVars, runVars >>

\* The deadline of context.WithTimeout(ctx, cfg.runTimeout) passes.
RunTimeoutExpires ==
    /\ pc # "exited"
    /\ cfg.runTimeout
    /\ ctxErr = "nil"
    /\ ctxErr' = "context deadline exceeded"
    /\ IF pc = "parked 1" THEN TakeCtxDone ELSE Stay
    /\ UNCHANGED << cfg, fn, done, second, timeoutChan, arrivals, expiredWhile >>
    /\ UNCHANGED << parseVars, runVars >>

\* After <-ctx.Done(): signal.Notify(second, ...), the message, the termination timer.
Notify ==
    /\ pc = "notify"
    /\ pc' = "select 2"
    /\ stderr' = Append(stderr, "shutting down gracefully (press ctrl+c again to force quit)")
    /\ timeoutChan' = IF cfg.shutdownTimeout THEN "running" ELSE "nil"
    /\ UNCHANGED << cfg, fn, ctxErr, done, second, exitCode, arrivals, expiredWhile >>
    /\ UNCHANGED << parseVars, runVars >>

\* time.NewTimer(cfg.shutdownTimeout) fires.
ShutdownTimeoutExpires ==
    /\ pc # "exited"
    /\ timeoutChan = "running"
    /\ timeoutChan' = "fired"
    /\ expiredWhile' = fn
    /\ IF pc = "parked 2" THEN Exit(124, << "shutdown timeout exceeded" >>) ELSE Stay
    /\ UNCHANGED << cfg, fn, ctxErr, done, second, arrivals >>
    /\ UNCHANGED << parseVars, runVars >>

\* Run enters its second select: a ready case is taken, else it blocks.
Select2 ==
    /\ pc = "select 2"
    /\ \/ done # << >> /\ TakeDone(done[1]) /\ done' = << >> /\ UNCHANGED second
       \/ second = 1 /\ Exit(130, << "forced shutdown" >>) /\ second' = 0 /\ UNCHANGED done
       \/ timeoutChan = "fired" /\ Exit(124, << "shutdown timeout exceeded" >>)
                                /\ UNCHANGED << done, second >>
       \/ done = << >> /\ second = 0 /\ timeoutChan # "fired" /\ pc' = "parked 2"
                       /\ UNCHANGED << exitCode, stderr, done, second >>
    /\ UNCHANGED << cfg, fn, ctxErr, timeoutChan, arrivals, expiredWhile >>
    /\ UNCHANGED << parseVars, runVars >>

InitGraceful ==
    /\ root = 0
    /\ cells = << >>
    /\ path = << >>
    /\ Args = << >>
    /\ args = << >>
    /\ err = NoErr
    /\ parses = 0
    /\ PlainApplication
    /\ NothingRun
    /\ \E c \in Configs : Started(c)

NextGraceful ==
    \/ Select1
    \/ \E e \in { "nil", "error" } : FnReturns(e)
    \/ Signal
    \/ RunTimeoutExpires
    \/ Notify
    \/ ShutdownTimeoutExpires
    \/ Select2

SpecGraceful == InitGraceful /\ [][NextGraceful]_vars

(***************************************************************************)
(* What the properties below read off a state: the tree, the tokens of the *)
(* last call before and after the first "--", and the stages of that call. *)
(***************************************************************************)
Tree == Trees[root]
Called == parses > 0

HasDelimiter(a) == \E i \in 1..Len(a) : a[i] = "--"
FirstDelimiter(a) == CHOOSE i \in 1..Len(a) : a[i] = "--" /\ \A j \in 1..(i - 1) : a[j] # "--"
Leading(a) == IF HasDelimiter(a) THEN SubSeq(a, 1, FirstDelimiter(a) - 1) ELSE a
Trailing(a) == IF HasDelimiter(a) THEN SubSeq(a, FirstDelimiter(a) + 1, Len(a)) ELSE << >>

HelpMarkers == {"-h", "--h", "-help", "--help"}

Valid == validateCommands(Tree, 1) = NoErr
Resolution == resolveCommandPath(Tree, Leading(args))
Resolved == Valid /\ Resolution.err = NoErr
HelpAsked == \E i \in 1..Len(Leading(args)) : Leading(args)[i] \in HelpMarkers
Terminal == Resolution.path[Len(Resolution.path)]
Combined == combineFlags(Tree, Resolution.path)
\* The flag parse of the last call; its error and its touched names do not depend on
\* the values the cells held.
FlagParse == ParseToEnd(FlagSet(Combined, DefaultCells(Tree)), Leading(args))
Touched == FlagParse.fs.actual
\* The call got as far as the flag parse / as the required-flag check.
FlagParsed == Called /\ Resolved /\ ~HelpAsked
Reached == FlagParsed /\ FlagParse.err = NoErr
Missing == IF err.kind = "required flags not set" THEN err.missing ELSE << >>

\* The flag name a token spells when read as a flag: one or two dashes stripped, cut at
\* the first "="; "" for a token that is no flag.
NameOfToken(tok) ==
    IF Len(tok) < 2 \/ Char(tok, 1) # "-" THEN ""
    ELSE LET rest == IF Char(tok, 2) = "-" THEN SubSeq(tok, 3, Len(tok))
                     ELSE SubSeq(tok, 2, Len(tok))
         IN  IF Contains(rest, "=")
             THEN SubSeq(rest, 1, (CHOOSE i \in 1..Len(rest) :
                                     Char(rest, i) = "=" /\ \A j \in 1..(i - 1) : Char(rest, j) # "=") - 1)
             ELSE rest

\* Command cmd declares a non-boolean flag that name denotes, by long name or short alias.
NamesNonBool(cmd, name) ==
    \E k \in 1..Len(cmd.Flags) :
        /\ ~cmd.Flags[k].IsBool
        /\ \/ cmd.Flags[k].Name = name
           \/ /\ name # ""
              /\ \E m \in 1..Len(cmd.FlagsMetadata) :
                    cmd.FlagsMetadata[m].Name = cmd.Flags[k].Name
                    /\ cmd.FlagsMetadata[m].Short = name

Declares(c, n) == Lookup(Tree[c].Flags, n) # 0

(***************************************************************************)
(* C1.  Two Parse calls in sequence on one tree: the second leaves the     *)
(* flag values, the positional arguments and the path as a Parse of the    *)
(* same tokens on the freshly built tree would, so nothing of the first    *)
(* call leaks into it.  (Stated for calls that return no error.)           *)
(***************************************************************************)
C1_NoLeakBetweenParses ==
    (Called /\ err = NoErr) =>
        LET fresh == Parse(Tree, DefaultCells(Tree), [path |-> << >>, Args |-> << >>], args)
        IN  /\ cells = fresh.cells
            /\ Args = fresh.Args
            /\ path = fresh.path

(***************************************************************************)
(* C2.  A Parse of a token list that holds "--" ends as the Parse of the   *)
(* tokens before the first "--" does (same error, same flag values, same   *)
(* path), and when it assembles the positional arguments they are those of *)
(* the leading part followed by the tokens after the "--", verbatim.       *)
(***************************************************************************)
C2_DelimiterSplit ==
    [][ HasDelimiter(args') =>
          LET lead == Parse(Tree, cells, [path |-> path, Args |-> Args], Leading(args'))
          IN  /\ err' = lead.err
              /\ cells' = lead.cells
              /\ path' = lead.path
              /\ err'.kind \in {"nil", "no exec function defined"} =>
                    Args' = lead.Args \o Trailing(args') ]_vars

\* A call whose trailing part holds a help marker and a flag, passed through verbatim.
C2_Witness ==
    /\ root = 5
    /\ args = << "run", "--", "-h" >>
    /\ err = NoErr
    /\ path = << 1, 2 >>
    /\ Args = << "-h" >>

(***************************************************************************)
(* C3.  In the walk of resolveCommandPath, a token taken as a flag that    *)
(* has no "=" and names a non-boolean flag of a command then on the path   *)
(* is followed by a token the walk never tries as a command name.          *)
(***************************************************************************)
C3_FlagValueNeverCommand ==
    (Called /\ Valid) =>
        LET w == Resolution.walk
            toks == Leading(args)
        IN  \A k \in 1..Len(w) :
               ( /\ w[k].as = "flag"
                 /\ ~Contains(toks[w[k].at], "=")
                 /\ \E p \in 1..w[k].depth :
                       NamesNonBool(Tree[Resolution.path[p]], TrimLeft(toks[w[k].at], "-")) )
               => ~\E j \in 1..Len(w) : w[j].as = "command" /\ w[j].at = w[k].at + 1

SpellsHelpWithValue(tok) ==
    /\ Contains(tok, "=")
    /\ NameOfToken(tok) \in {"h", "help"}
    /\ NameOfToken(tok) \notin DOMAIN Combined

C5_NoExecIsLast ==
    Called =>
        /\ err.kind = "no exec function defined" <=>
              /\ Reached
              /\ checkRequiredFlags(Tree, Resolution.path, FlagParse.fs) = NoErr
              /\ ~Tree[Terminal].Exec
        /\ (Resolved /\ ~Tree[Terminal].Exec) => err # NoErr

\* The handler-less parent reached with its required flag set: every earlier stage passed.
C5_Witness ==
    /\ root = 3
    /\ args = << "parent", "--output", "foo" >>
    /\ path = << 1, 2 >>
    /\ ~Tree[Terminal].Exec
    /\ err.kind = "no exec function defined"

RECURSIVE UnsetRequired(_)
UnsetRequired(p) ==
    IF p > Len(path) THEN << >>
    ELSE LET md == Tree[path[p]].FlagsMetadata
             unset == SelectSeq(md, LAMBDA fm : fm.Required /\ fm.Name \notin Touched)
         IN  [k \in 1..Len(unset) |-> formatFlagName(unset[k].Name)] \o UnsetRequired(p + 1)

(***************************************************************************)
(* C7.  Once the flag parse has succeeded, the required flags no token set *)
(* are reported together in one error: those of every command on the       *)
(* resolved path and of no other command, root first and, within a         *)
(* command, in declaration order; with none unset no such error is made.   *)
(***************************************************************************)
C7_AllMissingInPathOrder ==
    Reached =>
        /\ Missing = UnsetRequired(1)
        /\ err.kind = "required flags not set" <=> UnsetRequired(1) # << >>

\* Root and nested both lack required flags; add, off the path, is not consulted.
C7_Witness ==
    /\ root = 2
    /\ args = << "nested" >>
    /\ path = << 1, 3 >>
    /\ err.missing = << "-verbose", "-name", "-force" >>

(***************************************************************************)
(* C8.  Once the flag parse has succeeded, a required flag with a short    *)
(* alias that a token set through that alias is not reported missing.      *)
(***************************************************************************)
C8_ShortAliasSatisfiesRequired ==
    Reached =>
        \A p \in 1..Len(path) : \A k \in 1..Len(Tree[path[p]].FlagsMetadata) :
            LET fm == Tree[path[p]].FlagsMetadata[k]
            IN  ( /\ fm.Required
                  /\ fm.Short # ""
                  /\ fm.Short \in Touched
                  /\ Combined[fm.Short].cmd = path[p]
                  /\ Combined[fm.Short].flag = fm.Name )
                => formatFlagName(fm.Name) \notin Range(Missing)

\* The value read through a name of the combined flag set.
ValueOf(name) == cells[Combined[name].cmd][Combined[name].flag]

(***************************************************************************)
(* C9.  For a flag of a command on the path that is declared with a short  *)
(* alias, after a parse that set it through either name the short and the  *)
(* long name yield the same value.                                         *)
(***************************************************************************)
C9_AliasSharesValue ==
    Reached =>
        \A p \in 1..Len(path) : \A k \in 1..Len(Tree[path[p]].FlagsMetadata) :
            LET fm == Tree[path[p]].FlagsMetadata[k]
            IN  (fm.Short # "" /\ (fm.Short \in Touched \/ fm.Name \in Touched))
                => ValueOf(fm.Short) = ValueOf(fm.Name)

\* The positions of the path pth whose command declares the flag name n.
DeclaringPositions(pth, n) == { p \in 1..Len(pth) : Declares(pth[p], n) }
Deepest(pth, n) ==
    CHOOSE p \in DeclaringPositions(pth, n) : \A q \in DeclaringPositions(pth, n) : q <= p

\* The values the tokens lead can give the name n: what follows its "=", the next
\* token, or true for a boolean flag given bare.
TokenValues(lead, n) ==
    LET at == { i \in 1..Len(lead) : NameOfToken(lead[i]) = n }
    IN  { cutAtEquals(lead[i]).value : i \in { j \in at : Contains(lead[j], "=") } }
        \cup { lead[i + 1] : i \in { j \in at : j < Len(lead) } }
        \cup { "true" }

\* The short aliases the command c declares for its flag n.
ShortsOf(c, n) ==
    { Tree[c].FlagsMetadata[m].Short :
        m \in { k \in 1..Len(Tree[c].FlagsMetadata) : Tree[c].FlagsMetadata[k].Name = n } }
    \ { "" }

\* A Parse of the tokens a that resolved the path pth and took the flag values from
\* before to after: the ancestors' declarations of a shadowed name keep their values,
\* and a name the flag parse set has its value in the deepest declaration.
DeepestWins(a, pth, before, after) ==
    LET lead == Leading(a)
        res == resolveCommandPath(Tree, lead)
        parsed == ParseToEnd(FlagSet(combineFlags(Tree, res.path), DefaultCells(Tree)), lead)
        shadowed == { n \in DOMAIN combineFlags(Tree, res.path) :
                        Cardinality(DeclaringPositions(pth, n)) >= 2 }
    IN  (Valid /\ res.err = NoErr /\ pth = res.path) =>
           \A n \in shadowed :
               /\ \A p \in DeclaringPositions(pth, n) \ { Deepest(pth, n) } :
                     \/ after[pth[p]][n] = before[pth[p]][n]
                     \/ \E i \in 1..Len(lead) : NameOfToken(lead[i]) \in ShortsOf(pth[p], n)
               /\ ( /\ \A i \in 1..Len(lead) : lead[i] \notin HelpMarkers
                    /\ parsed.err = NoErr
                    /\ n \in parsed.fs.actual )
                  => after[pth[Deepest(pth, n)]][n] \in TokenValues(lead, n)

C11_SurvivorReachableByAlias ==
    (Called /\ Resolved) =>
        \A p \in 1..Len(path) : \A k \in 1..Len(Tree[path[p]].Flags) :
            LET f == Tree[path[p]].Flags[k]
                short == shortFlagMap(Tree[path[p]].FlagsMetadata, f.Name)
            IN  (f.Name \in DOMAIN Combined /\ Combined[f.Name].cmd = path[p]) =>
                   /\ Combined[f.Name].flag = f.Name
                   /\ short # "" =>
                         /\ short \in DOMAIN Combined
                         /\ Combined[short].cmd = path[p]
                         /\ Combined[short].flag = f.Name

\* Some command of the tree fails the checks validateCommands makes of one command.
SomeCommandInvalid ==
    \E c \in 1..Len(Tree) :
        \/ ~validateName(Tree[c].Name)
        \/ validateFlagsMetadata(Tree[c]) # NoErr

C13_ShortIsOneLetter ==
    (Called /\ err.kind # "validate") =>
        \A c \in 1..Len(Tree) :
            LET md == Tree[c].FlagsMetadata
            IN  /\ \A k \in 1..Len(md) :
                      md[k].Short # "" =>
                         (Len(md[k].Short) = 1 /\ IsLetter(Char(md[k].Short, 1)))
                /\ \A j, k \in 1..Len(md) :
                      (j # k /\ md[j].Short # "") => md[j].Short # md[k].Short

\* The long names and short aliases the commands of the path declare.
NamesOnPath ==
    UNION { { Tree[path[p]].Flags[k].Name : k \in 1..Len(Tree[path[p]].Flags) }
            \cup { Tree[path[p]].FlagsMetadata[m].Short : m \in 1..Len(Tree[path[p]].FlagsMetadata) }
            : p \in 1..Len(path) } \ { "" }

(***************************************************************************)
(* C14.  Once the path is resolved and no help marker is present, a flag   *)
(* token whose name no command of the path declares, as a long name or as  *)
(* a short alias, makes Parse fail: every name the flag parse sets is      *)
(* declared on the path, and the unknown-flag error names a flag that is   *)
(* not, prefixed with the names of the resolved path.                      *)
(***************************************************************************)
C14_OnlyPathFlagsAccepted ==
    FlagParsed =>
        /\ err.kind \in {"nil", "no exec function defined", "required flags not set"} =>
              Touched \subseteq NamesOnPath
        /\ err.kind = "command: flag provided but not defined" =>
              /\ err.name \notin NamesOnPath
              /\ err.at = Join([k \in 1..Len(path) |-> Tree[path[k]].Name], " ")
        /\ ( /\ Leading(args) # << >>
             /\ NameOfToken(Leading(args)[Len(Leading(args))]) \notin NamesOnPath \cup {""}
             /\ \A i \in 1..(Len(Leading(args)) - 1) : NameOfToken(Leading(args)[i]) = "" )
           => err.kind \in {"command: flag provided but not defined", "command: help"}

\* --force is a flag of nested, a sibling of the resolved command add.
C14_Witness ==
    /\ root = 2
    /\ args = << "add", "--force" >>
    /\ path = << 1, 2 >>
    /\ err.kind = "command: flag provided but not defined"
    /\ err.name = "force"
    /\ err.at = "todo add"

(***************************************************************************)
(* C15.  After a Parse call that passes validation the path is not empty,  *)
(* starts at the root and continues from each command to one of its        *)
(* declared subcommands; after a successful call its last command has a    *)
(* handler and is the terminal command Run takes.                          *)
(***************************************************************************)
C15_PathIsChainFromRoot ==
    (Called /\ err.kind # "validate") =>
        /\ Len(path) >= 1
        /\ path[1] = 1
        /\ \A i \in 1..(Len(path) - 1) : path[i + 1] \in Range(Tree[path[i]].SubCommands)
        /\ err = NoErr => (terminal(1, path) = path[Len(path)] /\ Tree[terminal(1, path)].Exec)

\* A failed call that had already descended two levels.
C15_Witness ==
    /\ root = 3
    /\ args = << "parent", "child", "--output" >>
    /\ path = << 1, 2, 3 >>
    /\ err.kind = "command: flag needs an argument"

(***************************************************************************)
(* C16.  When the tokens hold no flag token and Parse succeeds, the        *)
(* positional arguments are the tokens without the leading names of the    *)
(* subcommands traversed: one token per command of the path below the      *)
(* root, each naming that command, and every later token kept, also one    *)
(* that equals a command name.                                             *)
(***************************************************************************)
C16_ArgsAreTokensAfterPath ==
    (Called /\ err = NoErr /\ \A i \in 1..Len(args) : ~HasPrefix(args[i], "-")) =>
        /\ Len(args) >= Len(path) - 1
        /\ \A i \in 1..(Len(path) - 1) : EqualFold(args[i], Tree[path[i + 1]].Name)
        /\ Args = SubSeq(args, Len(path), Len(args))

\* run names the subcommand once; the second and third run are positional arguments.
C16_Witness ==
    /\ root = 5
    /\ args = << "run", "run", "run" >>
    /\ path = << 1, 2 >>
    /\ err = NoErr
    /\ Args = << "run", "run" >>

(***************************************************************************)
(* Claims about Run, ParseAndRun and the usage text, under SpecRun.        *)
(***************************************************************************)
\* The handler was called by the last Run or ParseAndRun and panicked.
HandlerPanicked ==
    /\ runs > 0
    /\ invoked # << >>
    /\ handler \in { "panic error", "panic internalError", "panic value" }

\* C17: a panic of the handler during Run never reaches Run's caller: Run returns an
\* error; the error carries the source location whenever the panic value is not an
\* internalError, and an internalError is returned as it is, without location.
C17_PanicBecomesLocatedError ==
    HandlerPanicked =>
        /\ ret.kind \in { "panic", "internal error" }
        /\ handler = "panic internalError" => ret = Ret("internal error", "", FALSE)
        /\ handler # "panic internalError" => (ret.kind = "panic" /\ ret.location)

\* C18: when Parse reports help requested, ParseAndRun writes the usage text to the
\* Stdout of its options (the process stdout when the options or their Stdout are
\* nil), returns nil and calls no handler.  A step that counts both a parse and a run
\* is a ParseAndRun call.
C18_HelpPrintsUsageAndReturnsNil ==
    [][ (parses' = parses + 1 /\ runs' = runs + 1 /\ IsErrHelp(err')) =>
            /\ ret' = Ret("nil", "", FALSE)
            /\ invoked' = invoked
            /\ written' = Append(written,
                   [to |-> IF opts'.given /\ opts'.Stdout # "nil"
                           THEN opts'.Stdout ELSE "os.Stdout",
                    text |-> DefaultUsage(Trees[root], usageFunc, 1, path',
                                          Range(path'), 0).text \o "\n"]) ]_vars

C18_Witness ==
    /\ root = 5
    /\ args = << "run", "-h" >>
    /\ IsErrHelp(err)
    /\ opts = RunOptions(TRUE, "nil", "out", "nil")
    /\ ret = Ret("nil", "", FALSE)
    /\ invoked = << >>
    /\ written = << [to |-> "out", text |-> "Usage:\n  app Run [flags]\n"] >>

\* C19: when help is requested through ParseAndRun and the terminal command has a
\* UsageFunc, the text printed is the result of that UsageFunc, not the default usage.
C19_HelpPrintsUsageFuncResult ==
    [][ (parses' = parses + 1 /\ runs' = runs + 1 /\ IsErrHelp(err') /\ usageFunc # "nil") =>
            /\ Len(written') = Len(written) + 1
            /\ written'[Len(written')].text =
                   UsageFunc(Trees[root], usageFunc, terminal(1, path'), path',
                             Range(path'), 0).text \o "\n" ]_vars

\* C20: DefaultUsage renders the default text itself and calls no UsageFunc, so every
\* rendering comes to an end and a UsageFunc is only ever the outermost call: one that
\* calls DefaultUsage on its own command gets the default text back and returns.
C20_DefaultUsageNeverDispatches ==
    /\ rendered.done
    /\ \A i \in 1..Len(rendered.calls) : rendered.calls[i] = "UsageFunc" => i = 1
    /\ (Len(rendered.calls) > 0 /\ usageFunc = "wraps DefaultUsage") =>
           rendered.calls[Len(rendered.calls)] = "DefaultUsage"

C20_Witness ==
    /\ root = 5
    /\ path = << 1, 2 >>
    /\ usageFunc = "wraps DefaultUsage"
    /\ rendered = Rendering("Usage:\n  Run [flags]\n\nExamples:",
                            << "UsageFunc", "DefaultUsage" >>, TRUE)

(***************************************************************************)
(* Claims about flag options marked Local, under SpecOnce.                 *)
(***************************************************************************)
\* The tree with no flag option marked Local.
withoutLocal(tree) ==
    [c \in 1..Len(tree) |->
        [tree[c] EXCEPT !.FlagsMetadata =
            [k \in 1..Len(tree[c].FlagsMetadata) |->
                [tree[c].FlagsMetadata[k] EXCEPT !.Local = FALSE]]]]

\* Some flag option of the tree is marked Local.
HasLocal(tree) ==
    \E c \in 1..Len(tree) : \E k \in 1..Len(tree[c].FlagsMetadata) :
        tree[c].FlagsMetadata[k].Local

\* The result of Parse(a) from the flag values before equals that on the tree
\* without the Local marks.
SameWithoutLocal(a, before, st, result) ==
    result = Parse(withoutLocal(Tree), before, st, a)

LooksLikeFlag(t) == Len(t) > 1 /\ Char(t, 1) = "-"

\* The flag token t takes the token after it as its value.
TakesNext(t) ==
    LET name == cutAtEquals(TrimLeft(t, "-"))
        formal == combineFlags(TreeFlagset, << 1 >>)
    IN  /\ ~name.hasValue
        /\ name.name \in DOMAIN formal
        /\ ~formal[name.name].IsBool

\* The positions of a that hold neither a flag nor the value of a flag.
RECURSIVE PositionalFrom(_, _)
PositionalFrom(a, i) ==
    IF i > Len(a) THEN {}
    ELSE IF LooksLikeFlag(a[i])
    THEN IF TakesNext(a[i]) THEN PositionalFrom(a, i + 2) ELSE PositionalFrom(a, i + 1)
    ELSE {i} \cup PositionalFrom(a, i + 1)

\* The tokens of a at the positions of P (when keep) or at the others, in order.
RECURSIVE Pick(_, _, _, _)
Pick(a, P, keep, i) ==
    IF i > Len(a) THEN << >>
    ELSE (IF (i \in P) = keep THEN << a[i] >> ELSE << >>) \o Pick(a, P, keep, i + 1)

\* C22: ParseToEnd takes flags before, after and between positional arguments.  For a
\* token list without "--" that parses without error, the flag values are those of
\* parsing the flags and their values alone, and Args() is the other tokens in order.
C22_FlagsAnywhere ==
    (parses > 0 /\ ~HasDelimiter(args) /\ err = NoErr) =>
        LET P == PositionalFrom(args, 1)
            alone == ParseToEnd(newFlagset(DefaultCells(TreeFlagset)), Pick(args, P, FALSE, 1))
        IN  /\ Args = Pick(args, P, TRUE, 1)
            /\ alone.err = NoErr
            /\ cells = alone.fs.cells

C22_Witness ==
    /\ root = 0
    /\ args = << "arg1", "-flag3", "arg2" >>
    /\ err = NoErr
    /\ Args = << "arg1", "arg2" >>
    /\ cells[1]["flag3"] = "true"

\* C23: in ParseToEnd a literal "--" ends flag interpretation: wherever it stands,
\* the tokens after the first "--" are the end of Args(), in order, and set no flag.
\* Lists whose part before the "--" does not parse alone (the "--" is then the value
\* of a flag, or the call fails before reaching it) are left aside.
C23_DelimiterEndsFlags ==
    (parses > 0 /\ HasDelimiter(args)) =>
        LET alone == ParseToEnd(newFlagset(DefaultCells(TreeFlagset)), Leading(args))
        IN  alone.err = NoErr =>
                /\ err = NoErr
                /\ cells = alone.fs.cells
                /\ Args = alone.fs.args \o Trailing(args)

(***************************************************************************)
(* Claims about graceful.Run, under SpecGraceful.                          *)
(***************************************************************************)
\* The process has ended.
Exited == pc = "exited"

\* Run wrote message to cfg.stderr.
Wrote(message) == \E i \in 1..Len(stderr) : stderr[i] = message

\* The exit was a forced shutdown: a signal taken from the second channel, or the
\* immediate termination of a cancelled run.
Forced ==
    \/ Wrote("forced shutdown") /\ Len(arrivals) > 0
    \/ Wrote("immediate termination") /\ cfg.immediateTermination /\ ctxErr # "nil"

\* What each exit code but 124 says about its cause.
CodeTellsCause ==
    /\ exitCode \in { 0, 1, 124, 130 }
    /\ exitCode = 0 => fn = "returned nil"
    /\ exitCode = 1 => fn = "returned error"
    /\ exitCode = 130 => Forced

C25_SecondSignalForcesExit ==
    (/\ Exited
     /\ ~cfg.immediateTermination
     /\ Len(arrivals) >= 2
     /\ arrivals[2].fn = "running"
     /\ arrivals[2].timeoutChan # "fired") => exitCode = 130

\* C28: exit code 130 is produced only after at least one interrupt signal was
\* received, with or without WithImmediateTermination: the run timeout alone cancels
\* the context and never ends the process with 130.
C28_ForcedExitNeedsSignal ==
    (Exited /\ exitCode = 130) => Len(arrivals) >= 1


(***************************************************************************)
(* C26.  A successful Parse that ends at a command with subcommands hands  *)
(* that command no positional argument from before "--": Args() holds the  *)
(* tokens after the delimiter only.                                        *)
(***************************************************************************)
HasChildren(c) == Len(Tree[c].SubCommands) > 0

C26_NoPositionalsAboveSubcommands ==
    (Called /\ Valid /\ err = NoErr /\ HasChildren(path[Len(path)])) =>
        Args = Trailing(args)

(***************************************************************************)
(* C29.  The roles the two passes of Parse give the tokens before "--".    *)
(* MatchedAt is the set of positions resolveCommandPath matched as a       *)
(* subcommand name; the flag parse reads a token as a flag, as the value   *)
(* of the flag before it, or as a positional argument.                     *)
(***************************************************************************)
MatchedAt ==
    LET w == Resolution.walk
    IN  { w[k].at : k \in { j \in 1..Len(w) : w[j].as = "command" } }

\* The flag token t takes the token after it as its value, in the combined flag set.
TakesNextIn(formal, t) ==
    LET name == cutAtEquals(TrimLeft(t, "-"))
    IN  /\ ~name.hasValue
        /\ name.name \in DOMAIN formal
        /\ ~formal[name.name].IsBool

\* The positions of a from i on that the flag parse consumes as the value of a flag.
RECURSIVE ValuesFrom(_, _, _)
ValuesFrom(formal, a, i) ==
    IF i > Len(a) THEN {}
    ELSE IF LooksLikeFlag(a[i])
    THEN IF TakesNextIn(formal, a[i]) /\ i < Len(a)
         THEN {i + 1} \cup ValuesFrom(formal, a, i + 2)
         ELSE ValuesFrom(formal, a, i + 1)
    ELSE ValuesFrom(formal, a, i + 1)

\* The positions of a from i on that the flag parse reads as flags.
RECURSIVE FlagsFrom(_, _, _)
FlagsFrom(formal, a, i) ==
    IF i > Len(a) THEN {}
    ELSE IF LooksLikeFlag(a[i])
    THEN {i} \cup (IF TakesNextIn(formal, a[i]) THEN FlagsFrom(formal, a, i + 2)
                   ELSE FlagsFrom(formal, a, i + 1))
    ELSE FlagsFrom(formal, a, i + 1)

\* C29: in a successful Parse no token before "--" is both matched as a subcommand name
\* and consumed as a flag value, and Args() holds, before the tokens that followed "--",
\* exactly the tokens that are neither a matched name, nor a flag, nor a flag's value.
C29_OneRolePerToken ==
    (Called /\ Valid /\ err = NoErr) =>
        LET toks == Leading(args)
            V == ValuesFrom(Combined, toks, 1)
            F == FlagsFrom(Combined, toks, 1)
        IN  /\ MatchedAt \cap V = {}
            /\ Args = Pick(toks, MatchedAt \cup F \cup V, FALSE, 1) \o Trailing(args)


(***************************************************************************)
(* C27.  A call of Run (not through ParseAndRun) made when Parse was never *)
(* called on the root, or when the latest Parse returned an error, invokes *)
(* no handler and returns an error.                                        *)
(***************************************************************************)
RunStep == runs' = runs + 1 /\ parses' = parses

C27_RunOnlyAfterSuccessfulParse ==
    [][(RunStep /\ (parses = 0 \/ err # NoErr)) =>
           (invoked' = invoked /\ ret'.kind # "nil")]_vars


(***************************************************************************)
(* C30.  Every call of Run or ParseAndRun that invokes a handler hands it  *)
(* a State whose streams are those of the RunOptions of that call, the     *)
(* process streams standing in for the ones left nil.                      *)
(***************************************************************************)
\* The streams a call made with the options opt asks for.
StreamsOf(opt) ==
    LET o == checkAndSetRunOptions(opt)
    IN  [Stdin |-> o.Stdin, Stdout |-> o.Stdout, Stderr |-> o.Stderr]

C30_StreamsOfThisCall ==
    [][(runs' = runs + 1 /\ invoked' # invoked) => streams' = StreamsOf(opts')]_vars

====
